---------------------------- MODULE Spec2Model ----------------------------
(***************************************************************************)
(* State-machine model of src/Main.ts of the Rewrap extension: the         *)
(* command handler registered by activate, the asynchronous wrapSomething, *)
(* applyEdits, getEditsAndSelections and the option resolution             *)
(* (getOptionsFromEnvironment, getTabSize, getWrappingColumn).             *)
(*                                                                         *)
(* Line numbers are 0-based as in the source; TLA+ sequences are 1-based,  *)
(* so line i of a document d is d[i + 1].  A line of text is a sequence of *)
(* characters; the character "\n" is the line terminator.                  *)
(***************************************************************************)
EXTENDS Integers, Sequences, FiniteSets, TLC

\* Number of lines of the documents the edit synthesis is explored on.
NLines == 3
\* Largest number of simultaneous selections of the editor.
MaxSels == 2
\* Number of invocations of the command explored.
MaxInvocations == 2

VARIABLES
  env,        \* the live settings: rewrap.*, editor.* and the editor's tab size
  opts,       \* outcome of getOptionsFromEnvironment
  doc,        \* editor.document, a sequence of lines
  sels,       \* editor.selections
  proc,       \* the document processor: its sections and its wrapper's behaviour
  fault,      \* the step of the invocation at which an unexpected error is raised
  edits,      \* the Edit[] computed by getEditsAndSelections
  newSels,    \* the Selection[] computed by getEditsAndSelections
  replaces,   \* the builder.replace calls received by the host
  pc,         \* position of the invocation
  editResult, \* what the promise of editor.edit settled to
  nSubmit,    \* calls of editor.edit in this invocation
  nNotify,    \* calls of showInformationMessage in this invocation
  nSelWrites, \* assignments to editor.selections in this invocation
  doc0,       \* the document when the invocation started
  sels0,      \* editor.selections when the invocation started
  invocations \* invocations of the command so far

vars == << env, opts, doc, sels, proc, fault, edits, newSels, replaces, pc,
           editResult, nSubmit, nNotify, nSelWrites, doc0, sels0,
           invocations >>

----------------------------------------------------------------------------
(* JavaScript values read from the configuration.  A value is undefined,   *)
(* an integer v, the non-integer number v + 1/2, NaN, a non-numeric string *)
(* or a boolean (v = 1 for true).                                          *)

Undefined == [k |-> "undefined", v |-> 0]
NaN == [k |-> "nan", v |-> 0]
Num(n) == [k |-> "int", v |-> n]
Half(n) == [k |-> "half", v |-> n]
Str == [k |-> "string", v |-> 0]
Bool(b) == [k |-> "boolean", v |-> IF b THEN 1 ELSE 0]

\* ToBoolean of a value, as used by the || and && operators.
Truthy(x) ==
  CASE x.k = "int" -> x.v # 0
    [] x.k = "half" -> TRUE
    [] x.k = "string" -> TRUE
    [] x.k = "boolean" -> x.v = 1
    [] OTHER -> FALSE

\* Number.isInteger
IsInteger(x) == x.k = "int"

\* x < n and n < x for an integer literal n; false for undefined and NaN.
LessThan(x, n) ==
  CASE x.k = "int" -> x.v < n
    [] x.k = "half" -> x.v < n
    [] OTHER -> FALSE

GreaterThan(x, n) ==
  CASE x.k = "int" -> x.v > n
    [] x.k = "half" -> x.v >= n
    [] OTHER -> FALSE

\* An array setting: undefined, or an array of values.
NoArray == [k |-> "undefined", items |-> << >>]
Array(s) == [k |-> "array", items |-> s]

\* rulers[0]: undefined when the array is empty.
First(a) == IF Len(a.items) = 0 THEN Undefined ELSE a.items[1]

----------------------------------------------------------------------------
(* Option resolution.  A call either returns a value or throws.            *)

Returned(x, w) == [threw |-> FALSE, val |-> x, warnings |-> w]
Threw == [threw |-> TRUE, val |-> Undefined, warnings |-> 0]

\* The chain a test for undefined (first defined wins) would give.
FirstDefinedColumn(extensionColumn, rulers, editorColumn) ==
  IF extensionColumn.k # "undefined" THEN Returned(extensionColumn, 0)
  ELSE IF rulers.k = "undefined" THEN Threw
  ELSE IF First(rulers).k # "undefined" THEN Returned(First(rulers), 0)
  ELSE IF GreaterThan(editorColumn, 0) /\ LessThan(editorColumn, 300)
       THEN Returned(editorColumn, 0)
  ELSE Returned(Num(80), 0)

\* The || chain of getWrappingColumn: its first truthy operand.  rulers[0]
\* is evaluated, and throws when rulers is undefined, only when the
\* extension's column is falsy.
SelectColumn(extensionColumn, rulers, editorColumn) ==
  IF Truthy(extensionColumn) THEN Returned(extensionColumn, 0)
  ELSE IF rulers.k = "undefined" THEN Threw
  ELSE IF Truthy(First(rulers)) THEN Returned(First(rulers), 0)
  ELSE IF GreaterThan(editorColumn, 0) /\ LessThan(editorColumn, 300)
       THEN Returned(editorColumn, 0)
  ELSE Returned(Num(80), 0)

getWrappingColumn(e) ==
  LET chosen == SelectColumn(e.extensionColumn, e.rulers, e.editorColumn)
      wrappingColumn == chosen.val
  IN  IF chosen.threw THEN Threw
      ELSE IF ~IsInteger(wrappingColumn) \/ wrappingColumn.v < 1
           THEN Returned(Num(80), 1)
      ELSE IF wrappingColumn.v > 120 THEN Returned(wrappingColumn, 1)
      ELSE Returned(wrappingColumn, 0)

\* The sanitised tab size, and the number of warnings logged.
getTabSize(tab, wrappingColumn) ==
  LET invalid == ~IsInteger(tab) \/ tab.v < 1
      tabSize == IF invalid THEN Num(4) ELSE tab
      large == 2 * tabSize.v > wrappingColumn.v
  IN  Returned(tabSize, (IF invalid THEN 1 ELSE 0) + (IF large THEN 1 ELSE 0))

NoOptions ==
  [threw |-> FALSE, resolved |-> FALSE, wrappingColumn |-> Undefined,
   tabSize |-> Undefined, doubleSentenceSpacing |-> Undefined, warnings |-> 0]

getOptionsFromEnvironment(e) ==
  LET wrappingColumn == getWrappingColumn(e)
      tabSize == getTabSize(e.tabSize, wrappingColumn.val)
  IN  IF wrappingColumn.threw
      THEN [NoOptions EXCEPT !.threw = TRUE]
      ELSE [threw |-> FALSE, resolved |-> TRUE,
            wrappingColumn |-> wrappingColumn.val,
            tabSize |-> tabSize.val,
            doubleSentenceSpacing |-> e.doubleSentenceSpacing,
            warnings |-> wrappingColumn.warnings + tabSize.warnings]

----------------------------------------------------------------------------
(* Documents, positions, selections, sections and edits.                   *)

Min(a, b) == IF a < b THEN a ELSE b
Max(a, b) == IF a < b THEN b ELSE a

Pos(l, c) == [line |-> l, character |-> c]
Sel(a, b) == [anchor |-> a, active |-> b]
Caret(l, c) == Sel(Pos(l, c), Pos(l, c))

\* A section of a tier covers the lines startLine <= l < endLine.
Section(t, s, e) == [tier |-> t, startLine |-> s, endLine |-> e]
Edit(s, e, ls) == [startLine |-> s, endLine |-> e, lines |-> ls]

RECURSIVE Concat(_)
\* The characters of a sequence of lines, one after the other.
Concat(ls) == IF Len(ls) = 0 THEN << >> ELSE Head(ls) \o Concat(Tail(ls))

\* The lines of d from line a up to, not including, line b.
Slice(d, a, b) == [i \in 1..(Min(b, Len(d)) - a) |-> d[a + i]]

----------------------------------------------------------------------------
(* The section selector, Section.sectionsInSelections.                     *)

FirstLine(sel) == Min(sel.anchor.line, sel.active.line)
LastLine(sel) == Max(sel.anchor.line, sel.active.line)

\* The section has a line in the selection's span of lines.
Intersects(sec, sel) ==
  sec.startLine <= LastLine(sel) /\ FirstLine(sel) < sec.endLine

\* The selection's span of lines lies in the section.
Contains(sec, sel) ==
  sec.startLine <= FirstLine(sel) /\ LastLine(sel) < sec.endLine

Inside(inner, outer) ==
  outer.startLine <= inner.startLine /\ inner.endLine <= outer.endLine

Elements(s) == {s[i] : i \in 1..Len(s)}

\* The sections one selection picks: the secondary section that contains it
\* when it lies in a single primary section, else every primary section it
\* touches.
sectionsOfSelection(primary, secondary, sel) ==
  LET touched == {p \in Elements(primary) : Intersects(p, sel)}
      narrow == {s \in Elements(secondary) :
                   /\ Contains(s, sel)
                   /\ \E p \in touched : Contains(p, sel) /\ Inside(s, p)}
  IN  IF Cardinality(touched) = 1 /\ narrow # {} THEN narrow ELSE touched

\* s comes before t: by first line, a primary section before a secondary one.
Before(s, t) ==
  \/ s.startLine < t.startLine
  \/ s.startLine = t.startLine /\ s.tier = "primary" /\ t.tier = "secondary"

RECURSIVE Ascending(_)
\* The sections of a set in ascending order.
Ascending(S) ==
  IF S = {} THEN << >>
  ELSE LET first == CHOOSE s \in S : \A t \in S \ {s} : Before(s, t)
       IN  << first >> \o Ascending(S \ {first})

sectionsInSelections(primary, secondary, selections) ==
  Ascending(UNION {sectionsOfSelection(primary, secondary, selections[i]) :
                     i \in 1..Len(selections)})

----------------------------------------------------------------------------
(* The section wrapper, documentProcessor.editSection: the replacement     *)
(* lines of a section under each behaviour of the wrapper explored.        *)

WrapperModes == {"join", "same", "grow", "mixed"}

RECURSIVE Wrapped(_, _, _)
Wrapped(mode, startLine, lines) ==
  CASE mode = "join" -> << Concat(lines) >>
    [] mode = "same" -> lines
    [] mode = "grow" -> lines \o << << "z" >> >>
    [] OTHER -> Wrapped(IF startLine % 2 = 0 THEN "join" ELSE "grow",
                        startLine, lines)

\* editSection throws for the sections the processor cannot wrap.
Wrappable(p, section) == section \notin p.broken

editSection(p, documentLines, section) ==
  Edit(section.startLine, section.endLine,
       Wrapped(p.wrapper, section.startLine,
               Slice(documentLines, section.startLine, section.endLine)))

----------------------------------------------------------------------------
(* The selection transformer, adjustSelections.                            *)

\* A position inside the lines an edit replaces, delta being the shift of
\* the edits before it.
adjustInside(documentLines, pos, e, delta) ==
  LET n == Len(e.lines)
      m == e.endLine - e.startLine
      rel == pos.line - e.startLine
      atEnd == /\ pos.line = e.endLine - 1
               /\ pos.line < Len(documentLines)
               /\ pos.character >= Len(documentLines[pos.line + 1])
      newRel == IF n = m THEN rel ELSE Max(0, Min(n - 1, (rel * n) \div m))
  IN  IF n = 0 THEN Pos(e.startLine + delta, 0)
      ELSE IF atEnd THEN Pos(e.startLine + delta + n - 1, Len(e.lines[n]))
      ELSE Pos(e.startLine + delta + newRel,
               Min(pos.character, Len(e.lines[newRel + 1])))

RECURSIVE adjustPosition(_, _, _, _, _)
\* One pass over the edits in order, i being the next edit and delta the
\* lines added less the lines removed by the edits passed.
adjustPosition(documentLines, pos, es, i, delta) ==
  IF i > Len(es) THEN Pos(pos.line + delta, pos.character)
  ELSE LET e == es[i]
       IN  IF pos.line < e.startLine
           THEN Pos(pos.line + delta, pos.character)
           ELSE IF pos.line < e.endLine
           THEN adjustInside(documentLines, pos, e, delta)
           ELSE adjustPosition(documentLines, pos, es, i + 1,
                  delta + Len(e.lines) - (e.endLine - e.startLine))

adjustSelections(documentLines, selections, es) ==
  [i \in 1..Len(selections) |->
     Sel(adjustPosition(documentLines, selections[i].anchor, es, 1, 0),
         adjustPosition(documentLines, selections[i].active, es, 1, 0))]

----------------------------------------------------------------------------
(* getEditsAndSelections.  It throws when a call it makes throws: flt      *)
(* names the call that raises an unexpected error, and editSection throws  *)
(* for a section the wrapper cannot wrap.                                  *)

SynthesisSteps == {"findSections", "sectionsInSelections", "adjustSelections"}

Synthesis(t, es, ss) == [threw |-> t, edits |-> es, selections |-> ss]

\* The same, returning the selections it was given.
getEditsAndSelectionsUnadjusted(p, documentLines, selections, flt) ==
  LET sectionsToEdit ==
        sectionsInSelections(p.primary, p.secondary, selections)
      es == [i \in 1..Len(sectionsToEdit) |->
               editSection(p, documentLines, sectionsToEdit[i])]
  IN  IF \/ flt \in SynthesisSteps
         \/ \E i \in 1..Len(sectionsToEdit) : ~Wrappable(p, sectionsToEdit[i])
      THEN Synthesis(TRUE, << >>, << >>)
      ELSE Synthesis(FALSE, es, selections)

getEditsAndSelections(p, documentLines, selections, flt) ==
  LET sectionsToEdit ==
        sectionsInSelections(p.primary, p.secondary, selections)
      es == [i \in 1..Len(sectionsToEdit) |->
               editSection(p, documentLines, sectionsToEdit[i])]
      adjustedSelections == adjustSelections(documentLines, selections, es)
  IN  IF \/ flt \in SynthesisSteps
         \/ \E i \in 1..Len(sectionsToEdit) : ~Wrappable(p, sectionsToEdit[i])
      THEN Synthesis(TRUE, << >>, << >>)
      ELSE Synthesis(FALSE, es, adjustedSelections)

----------------------------------------------------------------------------
(* applyEdits and the host's edit builder.                                 *)

\* Number.MAX_VALUE, the character of the end of the range of an edit.
MAX_VALUE == 1000000

RECURSIVE Join(_)
\* lines.join('\n')
Join(ls) ==
  IF Len(ls) = 0 THEN << >>
  ELSE IF Len(ls) = 1 THEN ls[1]
  ELSE ls[1] \o << "\n" >> \o Join(Tail(ls))

RECURSIVE SplitLines(_, _)
\* The lines of a text, cur being the line read so far.
SplitLines(text, cur) ==
  IF Len(text) = 0 THEN << cur >>
  ELSE IF Head(text) = "\n" THEN << cur >> \o SplitLines(Tail(text), << >>)
  ELSE SplitLines(Tail(text), Append(cur, Head(text)))

\* document.validatePosition: the position clamped to the document.
validatePosition(d, pos) ==
  IF pos.line < 0 THEN Pos(0, 0)
  ELSE IF pos.line >= Len(d) THEN Pos(Len(d) - 1, Len(d[Len(d)]))
  ELSE Pos(pos.line, Max(0, Min(pos.character, Len(d[pos.line + 1]))))

PosBefore(p, q) ==
  p.line < q.line \/ (p.line = q.line /\ p.character < q.character)

\* new Range(...): the two positions in order.
Range(p, q) ==
  IF PosBefore(q, p) THEN [start |-> q, end |-> p] ELSE [start |-> p, end |-> q]

validateRange(d, r) ==
  [start |-> validatePosition(d, r.start), end |-> validatePosition(d, r.end)]

\* The range that ends where line endLine begins.
rangeOfEditExclusive(d, e) ==
  validateRange(d, Range(Pos(e.startLine, 0), Pos(e.endLine, 0)))

\* The range applyEdits gives an edit: up to the end of line endLine.
rangeOfEdit(d, e) ==
  validateRange(d, Range(Pos(e.startLine, 0), Pos(e.endLine, MAX_VALUE)))

\* applyEdits: one builder.replace(range, text) for each edit, in order.
applyEdits(es, d) ==
  [i \in 1..Len(es) |-> [range |-> rangeOfEdit(d, es[i]),
                         text |-> Join(es[i].lines)]]

\* The document after the host replaces one range by a text.
replaceRange(d, r) ==
  LET first == d[r.range.start.line + 1]
      last == d[r.range.end.line + 1]
      text == SubSeq(first, 1, r.range.start.character)
                \o r.text
                \o SubSeq(last, r.range.end.character + 1, Len(last))
  IN  SubSeq(d, 1, r.range.start.line)
        \o SplitLines(text, << >>)
        \o SubSeq(d, r.range.end.line + 2, Len(d))

\* The host applies a batch whose ranges are in order and do not overlap.
Applicable(rs) ==
  \A i \in 1..(Len(rs) - 1) : ~PosBefore(rs[i + 1].range.start, rs[i].range.end)

RECURSIVE replaceAll(_, _, _)
\* The ranges are those of the document before the batch: the last is
\* replaced first.
replaceAll(d, rs, i) ==
  IF i = 0 THEN d ELSE replaceAll(replaceRange(d, rs[i]), rs, i - 1)

----------------------------------------------------------------------------
(* The inputs explored.                                                    *)

ExampleDocument ==
  << << "// a", " short" >>, << "// comment" >>, << "code();" >> >>
ExampleWrapped == << << "// a", " short", " comment" >> >>

\* The document of n lines the edit synthesis is explored on.
Document(n) == [i \in 1..n |-> IF i % 2 = 1 THEN << "a", "b" >> ELSE << "c" >>]

Intervals(n) == {x \in (0..n) \X (0..n) : x[1] < x[2]}

Disjoint(S) ==
  \A a \in S : \A b \in S \ {a} : a[2] <= b[1] \/ b[2] <= a[1]

Tier(t, S) == Ascending({Section(t, x[1], x[2]) : x \in S})

NoProcessor ==
  [primary |-> << >>, secondary |-> << >>, wrapper |-> "none", broken |-> {}]

\* What findSections may return for a document of n lines: in each tier
\* sections in order that do not overlap, each secondary section inside a
\* primary one.
Partitions(n) ==
  LET tiers == {T \in SUBSET Intervals(n) : Disjoint(T)}
  IN  {[NoProcessor EXCEPT !.primary = Tier("primary", x[1]),
                           !.secondary = Tier("secondary", x[2])] :
         x \in {y \in tiers \X tiers :
                  \A s \in y[2] : \E q \in y[1] : q[1] <= s[1] /\ s[2] <= q[2]}}

\* The partitions of the documents of up to NLines lines.
PartitionsOf == [n \in 0..NLines |-> Partitions(n)]

Processors(n, modes) ==
  {[p EXCEPT !.wrapper = m] : p \in Partitions(n), m \in modes}

\* The processors whose wrapper fails for one of the sections.
BrokenProcessors(n, modes) ==
  {[p EXCEPT !.broken = {s}] :
     << p, s >> \in {x \in Processors(n, modes) \X
                          {Section(t, y[1], y[2]) :
                             t \in {"primary", "secondary"}, y \in Intervals(n)} :
                     x[2] \in Elements(x[1].primary) \cup Elements(x[1].secondary)}}

\* Carets on every line and selections from one line to a later one.
Selections(n) ==
  {Caret(l, l % 2) : l \in 0..(n - 1)} \cup
  {Sel(Pos(x[1], 0), Pos(x[2] - 1, 1)) : x \in {y \in Intervals(n) : y[2] - y[1] > 1}}

SelBefore(a, b) ==
  \/ PosBefore(a.anchor, b.anchor)
  \/ a.anchor = b.anchor /\ PosBefore(a.active, b.active)

RECURSIVE InOrder(_)
InOrder(S) ==
  IF S = {} THEN << >>
  ELSE LET first == CHOOSE s \in S : \A t \in S \ {s} : SelBefore(s, t)
       IN  << first >> \o InOrder(S \ {first})

\* The selection lists of at most MaxSels selections.
SelectionLists(n) ==
  {InOrder(S) : S \in {T \in SUBSET Selections(n) :
                         Cardinality(T) >= 1 /\ Cardinality(T) <= MaxSels}}

Env(ext, rulers, ed, dss, tab) ==
  [extensionColumn |-> ext, rulers |-> rulers, editorColumn |-> ed,
   doubleSentenceSpacing |-> dss, tabSize |-> tab]

DefaultEnv == Env(Undefined, Array(<< >>), Num(300), Bool(FALSE), Num(4))

\* The settings option resolution is explored on.
ExtensionColumns ==
  {Undefined, NaN, Num(-5), Num(0), Num(1), Num(20), Num(100), Num(120),
   Num(121), Half(72)}
Rulers ==
  {NoArray, Array(<< >>), Array(<< Num(72) >>), Array(<< Num(0), Num(90) >>),
   Array(<< Num(-3) >>), Array(<< Half(80) >>), Array(<< Num(150), Num(72) >>)}
EditorColumns ==
  {Undefined, Num(-1), Num(0), Num(1), Num(100), Num(299), Num(300), Num(301),
   Half(99)}
SentenceSpacings == {Undefined, Bool(TRUE), Bool(FALSE)}
TabSizes ==
  {Undefined, Str, Num(-2), Num(0), Num(1), Num(4), Num(8), Num(50), Half(2)}

\* The settings the command is explored under.
CommandEnvs ==
  {DefaultEnv,
   Env(Num(100), Array(<< Num(72) >>), Num(300), Undefined, Num(0)),
   Env(Num(0), NoArray, Num(300), Bool(TRUE), Num(4))}

----------------------------------------------------------------------------
(* The command: the callback registered by activate, wrapSomething and the *)
(* host's side of editor.edit.                                             *)

Faults == {"none", "options", "fromDocument", "edit", "applyEdits"} \cup SynthesisSteps

\* The handler's catch block: one notification, and null is returned.
Caught ==
  /\ pc' = "caught"
  /\ fault' = "options"
  /\ nNotify' = nNotify + 1
  /\ UNCHANGED << edits, newSels, nSubmit, editResult, sels, nSelWrites >>

\* wrapSomething threw before editor.edit: its promise is rejected, and
\* the handler returns it.
Rejected(step) ==
  /\ pc' = "rejected"
  /\ fault' = step
  /\ UNCHANGED << edits, newSels, nSubmit, editResult, nNotify, sels, nSelWrites >>

\* wrapSomething calling editor.edit and assigning the new selections
\* without awaiting its promise.
SubmittedUnawaited(syn, flt) ==
  /\ edits' = syn.edits
  /\ newSels' = syn.selections
  /\ nSubmit' = nSubmit + 1
  /\ fault' = IF flt \in {"edit", "applyEdits"} THEN flt ELSE "none"
  /\ pc' = IF flt = "edit" THEN "rejected" ELSE "awaiting"
  /\ editResult' = IF flt = "edit" THEN "rejected" ELSE "pending"
  /\ sels' = syn.selections
  /\ nSelWrites' = nSelWrites + 1
  /\ UNCHANGED nNotify

\* wrapSomething called editor.edit and awaits its promise.
Submitted(syn, flt) ==
  /\ edits' = syn.edits
  /\ newSels' = syn.selections
  /\ nSubmit' = nSubmit + 1
  /\ fault' = IF flt \in {"edit", "applyEdits"} THEN flt ELSE "none"
  /\ pc' = IF flt = "edit" THEN "rejected" ELSE "awaiting"
  /\ editResult' = IF flt = "edit" THEN "rejected" ELSE "pending"
  /\ UNCHANGED << nNotify, sels, nSelWrites >>

\* The same, assigning the selections it was given when the synthesis
\* throws.
wrapSomethingAssigning(syn, flt) ==
  IF flt = "fromDocument" \/ syn.threw
  THEN /\ pc' = "rejected"
       /\ fault' = IF flt = "none" THEN "editSection" ELSE flt
       /\ sels' = sels
       /\ nSelWrites' = nSelWrites + 1
       /\ UNCHANGED << edits, newSels, nSubmit, editResult, nNotify >>
  ELSE Submitted(syn, flt)

\* wrapSomething up to its await.
wrapSomething(syn, flt) ==
  IF flt = "fromDocument" THEN Rejected(flt)
  ELSE IF syn.threw
       THEN Rejected(IF flt \in SynthesisSteps THEN flt ELSE "editSection")
  ELSE Submitted(syn, flt)

\* The processors the command is explored with: every partition of the
\* document, a wrapper that fails for at most one section.
CommandProcessors(d) ==
  {[part EXCEPT !.wrapper = m] :
     part \in PartitionsOf[Len(d)], m \in {"join", "same"}}
  \cup
  UNION {{[part EXCEPT !.wrapper = "same", !.broken = {s}] :
            s \in Elements(part.primary) \cup Elements(part.secondary)} :
         part \in PartitionsOf[Len(d)]}

\* The command callback: the options are resolved and wrapSomething runs
\* up to its await; an error thrown before wrapSomething is called is
\* caught.
Invoke ==
  /\ pc = "idle"
  /\ invocations < MaxInvocations
  /\ invocations' = invocations + 1
  /\ \E flt \in Faults :
       LET o == IF flt = "options" THEN [NoOptions EXCEPT !.threw = TRUE]
                ELSE getOptionsFromEnvironment(env)
       IN  /\ opts' = o
           /\ IF o.threw THEN Caught
              ELSE IF flt \in {"fromDocument"} \cup SynthesisSteps
              THEN wrapSomething(Synthesis(TRUE, << >>, << >>), flt)
              ELSE \E p \in CommandProcessors(doc) :
                     wrapSomething(getEditsAndSelections(p, doc, sels, flt), flt)
  /\ UNCHANGED << env, doc, proc, replaces, doc0, sels0 >>

\* The host runs the callback given to editor.edit: applyEdits fills the
\* builder.  An error thrown by the callback rejects the promise.
HostBuild ==
  /\ pc = "awaiting"
  /\ IF fault = "applyEdits"
     THEN /\ pc' = "rejected" /\ editResult' = "rejected"
          /\ UNCHANGED replaces
     ELSE /\ pc' = "built" /\ replaces' = applyEdits(edits, doc)
          /\ UNCHANGED editResult
  /\ UNCHANGED << env, opts, doc, sels, proc, fault, edits, newSels, nSubmit,
                  nNotify, nSelWrites, doc0, sels0, invocations >>

\* The host applies the batch, or does not, and resolves the promise.
HostResolve ==
  /\ pc = "built"
  /\ \E applied \in BOOLEAN :
       /\ applied => Applicable(replaces)
       /\ doc' = IF applied THEN replaceAll(doc, replaces, Len(replaces)) ELSE doc
       /\ editResult' = IF applied THEN "true" ELSE "false"
  /\ pc' = "resumed"
  /\ UNCHANGED << env, opts, sels, proc, fault, edits, newSels, replaces,
                  nSubmit, nNotify, nSelWrites, doc0, sels0, invocations >>

\* The host rejects the promise.
HostReject ==
  /\ pc = "built"
  /\ pc' = "rejected"
  /\ editResult' = "rejected"
  /\ fault' = "edit"
  /\ UNCHANGED << env, opts, doc, sels, proc, edits, newSels, replaces,
                  nSubmit, nNotify, nSelWrites, doc0, sels0, invocations >>

\* wrapSomething after its await, assigning only when the edit was applied.
ResumeIfApplied ==
  /\ pc = "resumed"
  /\ pc' = "done"
  /\ IF editResult = "true"
     THEN sels' = newSels /\ nSelWrites' = nSelWrites + 1
     ELSE UNCHANGED << sels, nSelWrites >>
  /\ UNCHANGED << env, opts, doc, proc, fault, edits, newSels, replaces,
                  editResult, nSubmit, nNotify, doc0, sels0, invocations >>

\* wrapSomething after its await: editor.selections = newSelections.
Resume ==
  /\ pc = "resumed"
  /\ pc' = "done"
  /\ sels' = newSels
  /\ nSelWrites' = nSelWrites + 1
  /\ UNCHANGED << env, opts, doc, proc, fault, edits, newSels, replaces,
                  editResult, nSubmit, nNotify, doc0, sels0, invocations >>

\* The invocation is over; the next one starts from the document and the
\* selections it left.
Settle ==
  /\ pc \in {"caught", "rejected", "done"}
  /\ pc' = "idle"
  /\ sels0' = sels
  /\ doc0' = doc
  /\ opts' = NoOptions
  /\ fault' = "none"
  /\ edits' = << >> /\ newSels' = << >> /\ replaces' = << >>
  /\ editResult' = "none"
  /\ nSubmit' = 0 /\ nNotify' = 0 /\ nSelWrites' = 0
  /\ UNCHANGED << env, doc, sels, proc, invocations >>

Init ==
  /\ env \in CommandEnvs
  /\ opts = NoOptions
  /\ doc = ExampleDocument
  /\ sels \in SelectionLists(Len(ExampleDocument))
  /\ proc = NoProcessor
  /\ fault = "none"
  /\ edits = << >> /\ newSels = << >> /\ replaces = << >>
  /\ pc = "idle"
  /\ editResult = "none"
  /\ nSubmit = 0 /\ nNotify = 0 /\ nSelWrites = 0
  /\ doc0 = doc /\ sels0 = sels
  /\ invocations = 0

Next == Invoke \/ HostBuild \/ HostResolve \/ HostReject \/ Resume \/ Settle

Spec == Init /\ [][Next]_vars

----------------------------------------------------------------------------
(* Option resolution on its own: getOptionsFromEnvironment applied to      *)
(* every combination of the settings.                                      *)

Quiet ==
  /\ proc = NoProcessor
  /\ fault = "none"
  /\ edits = << >> /\ newSels = << >> /\ replaces = << >>
  /\ editResult = "none"
  /\ nSubmit = 0 /\ nNotify = 0 /\ nSelWrites = 0
  /\ doc0 = doc /\ sels0 = sels
  /\ invocations = 0

InitOptions ==
  /\ env \in {Env(x, r, c, d, t) :
                x \in ExtensionColumns, r \in Rulers, c \in EditorColumns,
                d \in SentenceSpacings, t \in TabSizes}
  /\ opts = NoOptions
  /\ doc = ExampleDocument
  /\ sels = << Caret(0, 0) >>
  /\ pc = "options"
  /\ Quiet

ResolveOptions ==
  /\ pc = "options"
  /\ pc' = "resolved"
  /\ opts' = getOptionsFromEnvironment(env)
  /\ UNCHANGED << env, doc, sels, proc, fault, edits, newSels, replaces,
                  editResult, nSubmit, nNotify, nSelWrites, doc0, sels0,
                  invocations >>

SpecOptions == InitOptions /\ [][ResolveOptions]_vars

----------------------------------------------------------------------------
(* Edit synthesis on its own: getEditsAndSelections applied to every       *)
(* partition of a document of NLines lines and every selection list.       *)

InitSynthesis(processors) ==
  /\ env = DefaultEnv
  /\ opts = getOptionsFromEnvironment(DefaultEnv)
  /\ doc = Document(NLines)
  /\ sels \in SelectionLists(NLines)
  /\ proc \in processors
  /\ pc = "synthesis"
  /\ fault = "none"
  /\ edits = << >> /\ newSels = << >> /\ replaces = << >>
  /\ editResult = "none"
  /\ nSubmit = 0 /\ nNotify = 0 /\ nSelWrites = 0
  /\ doc0 = doc /\ sels0 = sels
  /\ invocations = 0

Synthesize ==
  /\ pc = "synthesis"
  /\ LET syn == getEditsAndSelections(proc, doc, sels, "none")
     IN  /\ pc' = IF syn.threw THEN "threw" ELSE "synthesized"
         /\ edits' = syn.edits
         /\ newSels' = syn.selections
  /\ UNCHANGED << env, opts, doc, sels, proc, fault, replaces, editResult,
                  nSubmit, nNotify, nSelWrites, doc0, sels0, invocations >>

InitEdits == InitSynthesis(Processors(NLines, WrapperModes))

SpecEdits == InitEdits /\ [][Synthesize]_vars

\* The same with a wrapper that fails for one section.
InitBroken == InitSynthesis(BrokenProcessors(NLines, {"same", "join"}))

SpecBroken == InitBroken /\ [][Synthesize]_vars

----------------------------------------------------------------------------
(* The edit batch on its own: one edit submitted for every document of at  *)
(* most NLines lines, from the call of editor.edit on.                     *)

Lines == {<< >>, << "a" >>, << "b", "c" >>}

Documents ==
  {ExampleDocument} \cup UNION {[1..n -> Lines] : n \in 1..NLines}

Replacements ==
  {<< >>, << << >> >>, << << "x" >> >>, << << "x" >>, << "y", "z" >> >>,
   ExampleWrapped}

EditsOf(d) ==
  {<< Edit(x[1], x[2], x[3]) >> :
     x \in {y \in (0..(Len(d) - 1)) \X (0..Len(d)) \X Replacements :
              y[1] <= y[2]}}

InitApply ==
  /\ env = DefaultEnv
  /\ opts = getOptionsFromEnvironment(DefaultEnv)
  /\ doc \in Documents
  /\ edits \in EditsOf(doc)
  /\ sels = << Caret(0, 0) >>
  /\ newSels = sels
  /\ proc = NoProcessor
  /\ fault = "none"
  /\ replaces = << >>
  /\ pc = "awaiting"
  /\ editResult = "pending"
  /\ nSubmit = 1 /\ nNotify = 0 /\ nSelWrites = 0
  /\ doc0 = doc /\ sels0 = sels
  /\ invocations = 1

NextApply == HostBuild \/ HostResolve \/ HostReject \/ Resume

SpecApply == InitApply /\ [][NextApply]_vars

----------------------------------------------------------------------------
(* The properties checked.                                                 *)

\* C1: editor.selections is assigned only after the promise of editor.edit
\* has resolved: it is not written before the edit is submitted nor while it
\* is pending, it is written at most once, and an invocation that reaches
\* the edit submits it exactly once.
C1_SelectionsAfterEdit ==
  /\ pc \in {"idle", "awaiting", "built", "resumed"} =>
       nSelWrites = 0 /\ sels = sels0
  /\ nSelWrites > 0 =>
       pc = "done" /\ editResult \in {"true", "false"} /\ nSelWrites = 1
  /\ nSubmit <= 1
  /\ pc \in {"awaiting", "built", "resumed", "done"} => nSubmit = 1

\* C1: an invocation whose edit was applied has submitted it once and then
\* moved the selections.
C1_Witness ==
  /\ pc = "done" /\ editResult = "true"
  /\ nSubmit = 1 /\ nSelWrites = 1
  /\ doc # doc0 /\ sels # sels0

\* C2: an invocation that ends with an unexpected error, whatever the step
\* that raised it, has shown exactly one failure notification.
C2_ErrorNotifiedOnce ==
  pc \in {"caught", "rejected"} => nNotify = 1

EarlySteps == {"options", "fromDocument", "editSection"} \cup SynthesisSteps

\* C3: an invocation that fails up to and including edit synthesis and
\* selection adjustment issues no replace, submits nothing and leaves the
\* document and the selections as they were; and the selections are never
\* changed without the edit batch having been submitted.
C3_FailureChangesNothing ==
  /\ pc \in {"caught", "rejected"} /\ fault \in EarlySteps =>
       /\ replaces = << >> /\ nSubmit = 0
       /\ doc = doc0
       /\ sels = sels0 /\ nSelWrites = 0
  /\ nSelWrites > 0 \/ sels # sels0 => nSubmit > 0

\* C3: the wrapper threw during the synthesis of a second invocation.
C3_Witness ==
  /\ pc = "rejected" /\ fault = "editSection"
  /\ invocations = 2
  /\ nSubmit = 0 /\ sels = sels0

\* The sections the selections pick that the wrapper can wrap.
WrappableSections ==
  SelectSeq(sectionsInSelections(proc.primary, proc.secondary, sels),
            LAMBDA x : Wrappable(proc, x))

\* C4: when the wrapper fails for one of several selected sections, the
\* synthesis still returns, with the edits of the other selected sections.
C4_FailedSectionSkipped ==
  (/\ pc \in {"synthesized", "threw"}
   /\ proc.broken \cap
        Elements(sectionsInSelections(proc.primary, proc.secondary, sels)) # {}
   /\ Len(WrappableSections) > 0) =>
    /\ pc = "synthesized"
    /\ edits = [i \in 1..Len(WrappableSections) |->
                  editSection(proc, doc, WrappableSections[i])]

\* C5: the edits returned are strictly ascending by startLine and do not
\* overlap.
C5_EditsAscending ==
  pc = "synthesized" =>
    \A i \in 1..Len(edits) : \A j \in 1..Len(edits) :
      i < j => /\ edits[i].startLine < edits[j].startLine
               /\ edits[i].endLine <= edits[j].startLine

\* A wrapping column that is no positive integer is replaced by 80.
Sanitised(x) == IF IsInteger(x) /\ x.v >= 1 THEN x ELSE Num(80)

\* C6 as stated: the extension's column whenever it is defined, whatever its
\* value; otherwise the first ruler; otherwise the editor's column when it
\* is strictly between 0 and 300; otherwise 80.
C6_FirstDefinedWins ==
  pc = "resolved" /\ ~opts.threw =>
    opts.wrappingColumn =
      IF env.extensionColumn.k # "undefined"
      THEN Sanitised(env.extensionColumn)
      ELSE IF Len(env.rulers.items) > 0 THEN Sanitised(env.rulers.items[1])
      ELSE IF /\ IsInteger(env.editorColumn)
              /\ 0 < env.editorColumn.v /\ env.editorColumn.v < 300
           THEN env.editorColumn
      ELSE Num(80)

Falsy(x) == x.k \in {"undefined", "nan"} \/ x = Num(0)

\* C6 as amended: the first setting that is neither undefined, 0 nor NaN
\* wins: the extension's column, else the first ruler, else the editor's
\* column when it is strictly between 0 and 300, else 80; when the
\* extension's column is undefined, 0 or NaN and editor.rulers is absent the
\* resolution throws.  The winner is replaced by 80 when it is no positive
\* integer and is returned as it is above 120.
C6_FirstTruthyWins ==
  pc = "resolved" =>
    /\ IF ~Falsy(env.extensionColumn)
       THEN ~opts.threw /\ opts.wrappingColumn = Sanitised(env.extensionColumn)
       ELSE IF env.rulers.k = "undefined" THEN opts.threw
       ELSE /\ ~opts.threw
            /\ opts.wrappingColumn =
                 IF Len(env.rulers.items) > 0 /\ ~Falsy(env.rulers.items[1])
                 THEN Sanitised(env.rulers.items[1])
                 ELSE IF /\ IsInteger(env.editorColumn)
                         /\ 0 < env.editorColumn.v /\ env.editorColumn.v < 300
                      THEN env.editorColumn
                 ELSE Num(80)
    /\ (/\ env.extensionColumn = Undefined
        /\ env.rulers = Array(<< >>)
        /\ env.editorColumn = Num(300)) => opts.wrappingColumn = Num(80)
    /\ env.extensionColumn = Num(100) /\ env.rulers = Array(<< Num(72) >>) =>
         opts.wrappingColumn = Num(100)
    /\ env.extensionColumn = Num(121) => opts.wrappingColumn = Num(121)

\* C6: an extension column of 0 gave way to the first ruler.
C6_Witness ==
  /\ pc = "resolved"
  /\ env.extensionColumn = Num(0) /\ env.rulers = Array(<< Num(72) >>)
  /\ opts.wrappingColumn = Num(72)

\* C7: option resolution returns for every combination of settings, with a
\* positive integer wrapping column, a positive integer tab size (4 when the
\* editor's is no positive integer, else the editor's) and a boolean
\* doubleSentenceSpacing that is false when the setting is absent.
C7_ResolutionTotal ==
  pc = "resolved" =>
    /\ ~opts.threw
    /\ IsInteger(opts.wrappingColumn) /\ opts.wrappingColumn.v >= 1
    /\ opts.tabSize = IF IsInteger(env.tabSize) /\ env.tabSize.v >= 1
                      THEN env.tabSize ELSE Num(4)
    /\ opts.doubleSentenceSpacing.k = "boolean"
    /\ env.doubleSentenceSpacing = Undefined =>
         opts.doubleSentenceSpacing = Bool(FALSE)

\* The document d with the lines startLine <= l < endLine replaced.
HalfOpenResult(d, e) ==
  SubSeq(d, 1, e.startLine) \o e.lines \o SubSeq(d, e.endLine + 1, Len(d))

\* The document d with the lines startLine <= l <= endLine replaced; a text
\* without lines is one empty line.
ClosedResult(d, e) ==
  SubSeq(d, 1, e.startLine)
    \o (IF e.lines = << >> THEN << << >> >> ELSE e.lines)
    \o SubSeq(d, e.endLine + 2, Len(d))

Terminators(text) == Cardinality({i \in 1..Len(text) : text[i] = "\n"})

\* Each edit gave one replace call, whose text is its lines joined by the
\* line terminator.
OneReplacePerEdit ==
  pc \in {"built", "resumed", "done"} =>
    /\ Len(replaces) = Len(edits)
    /\ \A i \in 1..Len(edits) :
         /\ Len(edits[i].lines) > 0 =>
              /\ SplitLines(replaces[i].text, << >>) = edits[i].lines
              /\ Terminators(replaces[i].text) = Len(edits[i].lines) - 1
         /\ Len(edits[i].lines) = 0 => replaces[i].text = << >>

RECURSIVE TotalShift(_)
\* The sum over the edits of the lines added less the lines replaced.
TotalShift(es) ==
  IF Len(es) = 0 THEN 0
  ELSE Len(es[1].lines) - (es[1].endLine - es[1].startLine)
         + TotalShift(Tail(es))

Ordered(es) ==
  \A i \in 1..(Len(es) - 1) : es[i].endLine <= es[i + 1].startLine

C10_AssignedWhateverTheResult ==
  /\ pc = "done" =>
       /\ editResult \in {"true", "false"}
       /\ sels = newSels /\ nSelWrites = 1
       /\ nSubmit = 1
  /\ editResult = "rejected" => nSelWrites = 0 /\ sels = sels0
  /\ editResult = "false" => doc = doc0

\* C10: the host did not apply the batch, and the selections computed for
\* the edited document were assigned all the same.
C10_Witness ==
  /\ pc = "done" /\ editResult = "false"
  /\ edits # << >>
  /\ doc = doc0
  /\ sels = newSels /\ sels # sels0

=============================================================================
